---- MODULE Spec2Model ----
(***************************************************************************)
(* A model of the maru runner's action execution                           *)
(* (src/src/pkg/runner/actions.go): performAction, RunAction with its      *)
(* retry/timeout loop, and the pure helpers they call.                     *)
(*                                                                         *)
(* Go strings are modelled as sequences of tokens (a token is a character  *)
(* or an atomic word); the empty string is << >>.  A Go pointer or an      *)
(* optional value is a sequence of length 0 (nil) or 1.  Map keys and      *)
(* identifiers (input names, variable names) are TLA+ strings.             *)
(***************************************************************************)
EXTENDS Integers, Sequences, FiniteSets, TLC

(***************************************************************************)
(* Bounds of the model.                                                    *)
(***************************************************************************)
\* largest maxRetries a manifest action carries
MaxR == 2
\* largest explicit maxTotalSeconds a manifest action carries
MaxS == 2
\* the seconds the clock counts one by one: a context-free child runs no
\* longer, and past it the clock goes in one step to the context's deadline
MaxNow == 3
\* longest list of actions getUniqueTaskActions is applied to
MaxActions == 3

(***************************************************************************)
(* Program constants.                                                      *)
(***************************************************************************)
\* actions.go:123  fiveMin := 300
FiveMin == 300
\* actions.go:360  network.Code = 200
DefaultHTTPCode == 200

Nil == << >>
Some(v) == << v >>
Deref(p) == p[1]

EmptyMap == [k \in {} |-> << >>]

(***************************************************************************)
(* Strings.                                                                *)
(***************************************************************************)
\* unicode.IsSpace, as strings.TrimSpace uses it: the code points of the
\* Unicode White_Space property, one token each (those TLA+ has no escape
\* for are written by their code point)
SpaceTokens ==
    { "\t", "\n", "U+000B", "\f", "\r", " ", "U+0085", "U+00A0", "U+1680",
      "U+2000", "U+2001", "U+2002", "U+2003", "U+2004", "U+2005", "U+2006",
      "U+2007", "U+2008", "U+2009", "U+200A", "U+2028", "U+2029", "U+202F",
      "U+205F", "U+3000" }

IsSpace(t) == t \in SpaceTokens

RECURSIVE TrimLeft(_)
TrimLeft(s) ==
    IF s # << >> /\ IsSpace(Head(s)) THEN TrimLeft(Tail(s)) ELSE s

RECURSIVE TrimRight(_)
TrimRight(s) ==
    IF s # << >> /\ IsSpace(s[Len(s)])
    THEN TrimRight(SubSeq(s, 1, Len(s) - 1))
    ELSE s

TrimLeadingOnly(s) == TrimLeft(s)

\* strings.TrimSpace (actions.go:201)
TrimSpace(s) == TrimRight(TrimLeft(s))

\* strings.Split(s, sep) for a one-token separator (actions.go:167)
RECURSIVE Split(_, _)
Split(s, sep) ==
    IF \E i \in 1..Len(s) : s[i] = sep
    THEN LET i == CHOOSE j \in 1..Len(s) :
                     s[j] = sep /\ \A h \in 1..(j - 1) : s[h] # sep
         IN  << SubSeq(s, 1, i - 1) >> \o Split(SubSeq(s, i + 1, Len(s)), sep)
    ELSE << s >>

RECURSIVE Flatten(_)
Flatten(ss) == IF ss = << >> THEN << >> ELSE Head(ss) \o Flatten(Tail(ss))

\* the orders in which a range over a map with the keys S can visit them: Go
\* fixes none, each range may take any (actions.go:52, 292)
Orders(S) ==
    { ks \in [1..Cardinality(S) -> S] : \A k \in S : \E i \in 1..Cardinality(S) : ks[i] = k }

(***************************************************************************)
(* Errors.                                                                 *)
(***************************************************************************)
NoErr == [kind |-> "nil", n |-> 0, names |-> {}]
Err(kind, n, names) == [kind |-> kind, n |-> n, names |-> names]

(***************************************************************************)
(* convertWaitToCmd (actions.go:330-375).  The result carries the command, *)
(* the error and the wait as the function leaves it (the network form is   *)
(* normalised in place through its pointer).                               *)
(***************************************************************************)
\* config.CmdPrefix, empty unless the runner is vendored (actions.go:347)
CmdPrefix == << >>

\* strings.ToLower, character by character (actions.go:356); the protocols
\* of the model are written in ASCII
UpperCase ==
    << "A", "B", "C", "D", "E", "F", "G", "H", "I", "J", "K", "L", "M",
       "N", "O", "P", "Q", "R", "S", "T", "U", "V", "W", "X", "Y", "Z" >>
LowerCase ==
    << "a", "b", "c", "d", "e", "f", "g", "h", "i", "j", "k", "l", "m",
       "n", "o", "p", "q", "r", "s", "t", "u", "v", "w", "x", "y", "z" >>

ToLowerTok(t) ==
    IF \E i \in 1..Len(UpperCase) : UpperCase[i] = t
    THEN LowerCase[CHOOSE i \in 1..Len(UpperCase) : UpperCase[i] = t]
    ELSE t

ToLower(s) == [i \in 1..Len(s) |-> ToLowerTok(s[i])]

\* strings.HasPrefix(protocol, "http") (actions.go:359)
HasPrefixHTTP(s) == Len(s) >= 4 /\ SubSeq(s, 1, 4) = << "h", "t", "t", "p" >>

\* fmt.Sprintf("./%s %s", config.CmdPrefix, cmd) (actions.go:347-349, 368-370)
WithCmdPrefix(cmd) ==
    IF CmdPrefix # << >> THEN << "./" >> \o CmdPrefix \o << " " >> \o cmd ELSE cmd

\* fmt.Sprintf("--timeout %ds", *timeout) (actions.go:332)
TimeoutString(timeout) == << "--timeout", " ", ToString(Deref(timeout)), "s" >>

ConvertNetworkFirst(wait, timeout) ==
    IF wait.Network # Nil
    THEN LET n0 == Deref(wait.Network)
             protocol == ToLower(n0.Protocol)
             code == IF HasPrefixHTTP(protocol) /\ n0.Code = 0
                     THEN DefaultHTTPCode ELSE n0.Code
             network == [n0 EXCEPT !.Protocol = protocol, !.Code = code]
         IN  [cmd |-> WithCmdPrefix(<< "zarf", " ", "tools", " ", "wait-for", " " >>
                         \o network.Protocol \o << " " >>
                         \o network.Address \o << " " >>
                         \o << ToString(network.Code), " " >>
                         \o TimeoutString(timeout)),
              err |-> NoErr,
              wait |-> [wait EXCEPT !.Network = Some(network)]]
    ELSE IF wait.Cluster # Nil
    THEN LET cluster == Deref(wait.Cluster)
             ns == IF cluster.Namespace # << >>
                   THEN << "-n", " " >> \o cluster.Namespace
                   ELSE << >>
         IN  [cmd |-> WithCmdPrefix(<< "zarf", " ", "tools", " ", "wait-for", " " >>
                         \o cluster.Kind \o << " " >>
                         \o cluster.Identifier \o << " " >>
                         \o cluster.Condition \o << " " >>
                         \o ns \o << " " >>
                         \o TimeoutString(timeout)),
              err |-> NoErr, wait |-> wait]
    ELSE [cmd |-> << >>, err |-> Err("wait_missing_form", 0, {}), wait |-> wait]

convertWaitToCmd(wait, timeout) ==
    IF wait.Cluster # Nil
    THEN LET cluster == Deref(wait.Cluster)
             ns == IF cluster.Namespace # << >>
                   THEN << "-n", " " >> \o cluster.Namespace
                   ELSE << >>
         IN  [cmd |-> WithCmdPrefix(<< "zarf", " ", "tools", " ", "wait-for", " " >>
                         \o cluster.Kind \o << " " >>
                         \o cluster.Identifier \o << " " >>
                         \o cluster.Condition \o << " " >>
                         \o ns \o << " " >>
                         \o TimeoutString(timeout)),
              err |-> NoErr, wait |-> wait]
    ELSE IF wait.Network # Nil
    THEN LET n0 == Deref(wait.Network)
             protocol == ToLower(n0.Protocol)
             code == IF HasPrefixHTTP(protocol) /\ n0.Code = 0
                     THEN DefaultHTTPCode ELSE n0.Code
             network == [n0 EXCEPT !.Protocol = protocol, !.Code = code]
         IN  [cmd |-> WithCmdPrefix(<< "zarf", " ", "tools", " ", "wait-for", " " >>
                         \o network.Protocol \o << " " >>
                         \o network.Address \o << " " >>
                         \o << ToString(network.Code), " " >>
                         \o TimeoutString(timeout)),
              err |-> NoErr,
              wait |-> [wait EXCEPT !.Network = Some(network)]]
    ELSE [cmd |-> << >>, err |-> Err("wait_missing_form", 0, {}), wait |-> wait]

(***************************************************************************)
(* validateActionableTaskCall (actions.go:378-416).  inputs maps input     *)
(* names to [Required, Default, DeprecatedMessage]; withs maps names to    *)
(* strings.  The result carries the error and the warnings logged.         *)
(***************************************************************************)
ValidateIgnoresEmptyWith(inputTaskName, inputs, withs) ==
    LET missing == {inputKey \in DOMAIN inputs :
                      /\ ~(~inputs[inputKey].Required \/ inputs[inputKey].Default # << >>)
                      /\ ~\E withKey \in DOMAIN withs : inputKey = withKey}
    IN  [err |-> IF missing # {} THEN Err("missing_inputs", 0, missing) ELSE NoErr,
         deprecated |-> {}, unknown |-> {}]

validateActionableTaskCall(inputTaskName, inputs, withs) ==
    LET missing == {inputKey \in DOMAIN inputs :
                      /\ ~(~inputs[inputKey].Required \/ inputs[inputKey].Default # << >>)
                      /\ ~\E withKey \in DOMAIN withs :
                              inputKey = withKey /\ withs[withKey] # << >>}
    IN  IF missing # {}
        THEN [err |-> Err("missing_inputs", 0, missing),
              deprecated |-> {}, unknown |-> {}]
        ELSE [err |-> NoErr,
              deprecated |-> {withKey \in DOMAIN withs :
                                \E inputKey \in DOMAIN inputs :
                                    /\ withKey = inputKey
                                    /\ inputs[inputKey].DeprecatedMessage # << >>},
              unknown |-> {withKey \in DOMAIN withs :
                             ~\E inputKey \in DOMAIN inputs : withKey = inputKey}]

(***************************************************************************)
(* GetBaseActionCfg (actions.go:265-301).  vars is the set-variable map:   *)
(* a function from variable names to [Value, Pattern].                     *)
(***************************************************************************)
\* types.ActionDefaults{} (actions.go:172)
ActionDefaults ==
    [Mute |-> FALSE, MaxTotalSeconds |-> 0, MaxRetries |-> 0,
     Dir |-> << >>, Env |-> << >>, Shell |-> << >>]

\* config.GetExtraEnv(): the architecture entry (actions.go:296)
ExtraEnv == << << "MARU_ARCH", "=", "amd64" >> >>

\* actions.go:292-294; ks is the order the range visits the variables in
VarEnv(vars, ks) == [i \in 1..Len(ks) |-> << ks[i], "=" >> \o vars[ks[i]].Value]

GetBaseActionCfg(cfg, a, vars, ks) ==
    [Mute |-> IF a.Mute # Nil THEN Deref(a.Mute) ELSE cfg.Mute,
     MaxTotalSeconds |-> IF a.MaxTotalSeconds # Nil
                         THEN Deref(a.MaxTotalSeconds) ELSE cfg.MaxTotalSeconds,
     MaxRetries |-> IF a.MaxRetries # Nil THEN Deref(a.MaxRetries) ELSE cfg.MaxRetries,
     Dir |-> IF a.Dir # Nil THEN Deref(a.Dir) ELSE cfg.Dir,
     Env |-> cfg.Env \o a.Env \o VarEnv(vars, ks) \o ExtraEnv,
     Shell |-> IF a.Shell # Nil THEN Deref(a.Shell) ELSE cfg.Shell]

(***************************************************************************)
(* The variable store (package variables) and the template helpers         *)
(* (package utils).  A store maps the names that are set to                *)
(* [Value, Pattern].                                                       *)
(***************************************************************************)
\* the regular expressions the manifests of this model use
Matches(pattern, value) ==
    CASE pattern = << >> -> TRUE
      [] pattern = << "^a$" >> -> value = << "a" >>
      [] OTHER -> FALSE

\* VariableConfig.SetVariable: writes, later writes overwrite earlier ones
SetVariable(vars, name, value, pattern) ==
    [k \in DOMAIN vars \cup {name} |->
        IF k = name THEN [Value |-> value, Pattern |-> pattern] ELSE vars[k]]

\* VariableConfig.CheckVariablePattern: re-validates the current value
CheckVariablePattern(vars, name) ==
    IF name \notin DOMAIN vars THEN Err("variable_not_found", 0, {name})
    ELSE IF Matches(vars[name].Pattern, vars[name].Value) THEN NoErr
    ELSE Err("pattern_mismatch", 0, {name})

\* the variable a ${NAME} token names ("" when the token is no placeholder)
VarOfToken(t) ==
    CASE t = "${X}" -> "X"
      [] t = "${Y}" -> "Y"
      [] OTHER -> ""

\* utils.TemplateString: one pass, unresolved references stay literal
TemplateString(vars, s) ==
    Flatten([i \in 1..Len(s) |->
                IF VarOfToken(s[i]) \in DOMAIN vars
                THEN vars[VarOfToken(s[i])].Value
                ELSE << s[i] >>])

\* the input a ${{ .inputs.NAME }} token names
InputOfToken(t) ==
    CASE t = "${{.inputs.a}}" -> "a"
      [] t = "${{.inputs.b}}" -> "b"
      [] OTHER -> ""

\* the inputs a template sees: the with value, or the default when the with
\* is absent or empty
TemplateData(withs, inputs) ==
    [name \in DOMAIN withs \cup DOMAIN inputs |->
        IF name \in DOMAIN inputs /\ (name \notin DOMAIN withs \/ withs[name] = << >>)
        THEN inputs[name].Default
        ELSE withs[name]]

TemplateInputs(data, s) ==
    Flatten([i \in 1..Len(s) |->
                IF InputOfToken(s[i]) \in DOMAIN data
                THEN data[InputOfToken(s[i])]
                ELSE << s[i] >>])

\* utils.TemplateTaskAction: a fresh action, the manifest's with its input
\* references expanded
TemplateTaskAction(action, withs, inputs, vars) ==
    LET data == TemplateData(withs, inputs)
    IN  [action EXCEPT
            !.If = TemplateInputs(data, @),
            !.Cmd = TemplateInputs(data, @),
            !.Description = TemplateInputs(data, @),
            !.With = [k \in DOMAIN @ |-> TemplateInputs(data, @[k])],
            !.Env = [i \in 1..Len(@) |-> TemplateInputs(data, @[i])]]

\* the environment name of an input
EnvName(name) ==
    CASE name = "a" -> "INPUT_A"
      [] name = "b" -> "INPUT_B"
      [] OTHER -> "INPUT_" 

\* utils.FormatEnvVar
FormatEnvVar(name, value) == << EnvName(name), "=" >> \o value

EnvKey(entry) == Split(entry, "=")[1]

\* utils.MergeEnv: an entry of env1 replaces the entries of env2 with its
\* key, or is appended
RECURSIVE MergeEnv(_, _)
MergeEnv(env1, env2) ==
    IF env1 = << >> THEN env2
    ELSE LET s1 == Head(env1)
             hit == \E j \in 1..Len(env2) : EnvKey(env2[j]) = EnvKey(s1)
             merged == IF hit
                       THEN [j \in 1..Len(env2) |->
                               IF EnvKey(env2[j]) = EnvKey(s1) THEN s1 ELSE env2[j]]
                       ELSE Append(env2, s1)
         IN  MergeEnv(Tail(env1), merged)

\* Runner.getTask: the pool task of that name
getTask(tasks, name) ==
    IF \E i \in 1..Len(tasks) : tasks[i].Name = name
    THEN [idx |-> CHOOSE i \in 1..Len(tasks) : tasks[i].Name = name, err |-> NoErr]
    ELSE [idx |-> 0, err |-> Err("task_not_found", 0, {})]

(***************************************************************************)
(* performAction's skip test (actions.go:30-40).                           *)
(***************************************************************************)
FalseLit == << "false" >>

SkipAction(action) ==
    \/ action.If = FalseLit /\ action.TaskReference # << >>
    \/ action.If = FalseLit /\ action.Description # << >>
    \/ action.If = FalseLit /\ action.Cmd # << >>

(***************************************************************************)
(* RunAction up to its retry loop (actions.go:116-189).                    *)
(***************************************************************************)
\* actions.go:119-145: a wait becomes a command and overrides the action
WaitToCmd(action) ==
    IF action.Wait = Nil
    THEN [action |-> action, cmd |-> action.Cmd, err |-> NoErr]
    ELSE LET a1 == IF action.MaxTotalSeconds = Nil
                   THEN [action EXCEPT !.MaxTotalSeconds = Some(FiveMin)]
                   ELSE action
             conv == convertWaitToCmd(Deref(a1.Wait), a1.MaxTotalSeconds)
             a2 == [a1 EXCEPT !.Wait = Some(conv.wait)]
         IN  IF conv.err.kind # "nil"
             THEN [action |-> a2, cmd |-> conv.cmd, err |-> conv.err]
             ELSE [action |-> [a2 EXCEPT !.Mute = Some(TRUE),
                                         !.MaxRetries = Some(0),
                                         !.Dir = Some(<< >>),
                                         !.Env = << >>,
                                         !.SetVariables = << >>],
                   cmd |-> conv.cmd, err |-> NoErr]

\* actions.go:172-185: the merged configuration, dir and env templated
ActionCfg(action, vars, ks) ==
    LET cfg == GetBaseActionCfg(ActionDefaults, action, vars, ks)
    IN  [cfg EXCEPT !.Dir = TemplateString(vars, @),
                    !.Env = [i \in 1..Len(@) |-> TemplateString(vars, @[i])]]

\* exec.MutateCommand (actions.go:174; package exec is not part of the
\* repository): every "./<key> " of the command, for a registered key, is
\* replaced by the registered location
CmdMutations == [key \in {"run"} |-> << "/usr/local/bin/maru" >>]

RECURSIVE MutateCommand(_, _)
MutateCommand(c, shell) ==
    IF c = << >> THEN << >>
    ELSE IF /\ Len(c) >= 3 /\ c[1] = "./"
            /\ c[2] \in DOMAIN CmdMutations /\ c[3] = " "
    THEN CmdMutations[c[2]] \o << " " >> \o MutateCommand(SubSeq(c, 4, Len(c)), shell)
    ELSE << Head(c) >> \o MutateCommand(Tail(c), shell)

\* The result of the part of RunAction before the loop.  envFile is what
\* os.ReadFile gives: Nil when the read fails, else Some(contents); ks is
\* the order GetBaseActionCfg's range visits the store's variables in.
\* returned says that RunAction has returned err; readEnv that the file
\* was read.
SetupReadsBeforeDryRun(action, envPath, vars, isDryRun, envFile, ks) ==
    LET w == WaitToCmd(action)
    IN  IF w.err.kind # "nil"
        THEN [returned |-> TRUE, err |-> w.err, action |-> w.action,
              cmd |-> w.cmd, cfg |-> ActionDefaults, readEnv |-> FALSE]
        ELSE IF envPath # << >> /\ envFile = Nil
        THEN [returned |-> TRUE, err |-> Err("env_file", 0, {}), action |-> w.action,
              cmd |-> w.cmd, cfg |-> ActionDefaults, readEnv |-> TRUE]
        ELSE IF isDryRun
        THEN [returned |-> TRUE, err |-> NoErr, action |-> w.action,
              cmd |-> w.cmd, cfg |-> ActionDefaults, readEnv |-> envPath # << >>]
        ELSE LET a3 == IF envPath # << >>
                       THEN [w.action EXCEPT
                               !.Env = @ \o Split(Deref(envFile), "\n")]
                       ELSE w.action
                 c == ActionCfg(a3, vars, ks)
             IN  [returned |-> FALSE, err |-> NoErr, action |-> a3,
                  cmd |-> MutateCommand(w.cmd, c.Shell),
                  cfg |-> c, readEnv |-> envPath # << >>]

RunActionSetup(action, envPath, vars, isDryRun, envFile, ks) ==
    LET w == WaitToCmd(action)
    IN  IF w.err.kind # "nil"
        THEN [returned |-> TRUE, err |-> w.err, action |-> w.action,
              cmd |-> w.cmd, cfg |-> ActionDefaults, readEnv |-> FALSE]
        ELSE IF isDryRun
        THEN [returned |-> TRUE, err |-> NoErr, action |-> w.action,
              cmd |-> w.cmd, cfg |-> ActionDefaults, readEnv |-> FALSE]
        ELSE IF envPath # << >> /\ envFile = Nil
        THEN [returned |-> TRUE, err |-> Err("env_file", 0, {}), action |-> w.action,
              cmd |-> w.cmd, cfg |-> ActionDefaults, readEnv |-> TRUE]
        ELSE LET a3 == IF envPath # << >>
                       THEN [w.action EXCEPT
                               !.Env = @ \o Split(Deref(envFile), "\n")]
                       ELSE w.action
                 c == ActionCfg(a3, vars, ks)
             IN  [returned |-> FALSE, err |-> NoErr, action |-> a3,
                  cmd |-> MutateCommand(w.cmd, c.Shell),
                  cfg |-> c, readEnv |-> envPath # << >>]

(***************************************************************************)
(* The retry loop (actions.go:187-262).                                    *)
(***************************************************************************)
\* actions.go:187: duration, in seconds
Duration(cfg) == cfg.MaxTotalSeconds

\* actions.go:192: remaining := cfg.MaxRetries + 1
OneAttemptTooMany(cfg) == cfg.MaxRetries + 2

Attempts(cfg) == cfg.MaxRetries + 1

NeverTimeout(cfg) == TRUE

\* actions.go:225: no timeout is set
NoTimeout(cfg) == cfg.MaxTotalSeconds < 1

TimerReadyEarly(clock, timerDeadline, taken) == ~taken /\ clock + 1 >= timerDeadline

\* actions.go:188, 238, 254: the channel of time.After(duration) holds its one
\* value from the deadline on, until a receive takes it
TimerReady(clock, timerDeadline, taken) == ~taken /\ clock >= timerDeadline

\* actions.go:204-211: each variable is written, then its pattern checked
RECURSIVE SetVariablesLoop(_, _, _)
SetVariablesLoop(sv, vars, value) ==
    IF sv = << >> THEN [vars |-> vars, err |-> NoErr, writes |-> 0]
    ELSE LET v == Head(sv)
             vars1 == SetVariable(vars, v.Name, value, v.Pattern)
             e == CheckVariablePattern(vars1, v.Name)
         IN  IF e.kind # "nil"
             THEN [vars |-> vars1, err |-> e, writes |-> 1]
             ELSE LET rest == SetVariablesLoop(Tail(sv), vars1, value)
                  IN  [rest EXCEPT !.writes = @ + 1]

\* actions.go:195-222: tryCmd, given what ExecAction returned
TryCmdKeepsFailedOutput(action, vars, execOut, execErr) ==
    LET r == SetVariablesLoop(action.SetVariables, vars, TrimSpace(execOut))
    IN  IF execErr.kind # "nil"
        THEN [err |-> execErr, vars |-> r.vars, out |-> execOut, writes |-> r.writes]
        ELSE [err |-> r.err, vars |-> r.vars, out |-> TrimSpace(execOut),
              writes |-> r.writes]

tryCmd(action, vars, execOut, execErr) ==
    IF execErr.kind # "nil"
    THEN [err |-> execErr, vars |-> vars, out |-> execOut, writes |-> 0]
    ELSE LET r == SetVariablesLoop(action.SetVariables, vars, TrimSpace(execOut))
         IN  [err |-> r.err, vars |-> r.vars, out |-> TrimSpace(execOut),
              writes |-> r.writes]

\* actions.go:253-261: the error after the loop
FinalSelect(ready, cfg) ==
    IF ready
    THEN Err("timeout", cfg.MaxTotalSeconds, {})
    ELSE Err("retries", cfg.MaxRetries, {})

(***************************************************************************)
(* performAction's task-reference branch (actions.go:42-64).               *)
(***************************************************************************)
\* actions.go:48-50: the with values, templated with the variables
TemplateWiths(vars, withs) == [k \in DOMAIN withs |-> TemplateString(vars, withs[k])]

\* actions.go:51-54; ks is the order the range visits the with-keys in
WithEnv(withs, ks) == [i \in 1..Len(ks) |-> FormatEnvVar(ks[i], withs[ks[i]])]

\* actions.go:58-60: a.Env is assigned through the action's BaseAction
\* pointer, which the pool's task shares
MergeIntoCallee(tasks, ti, withEnv) ==
    [tasks EXCEPT ![ti].Actions =
        [i \in 1..Len(@) |-> [@[i] EXCEPT !.Env = MergeEnv(withEnv, @)]]]

(***************************************************************************)
(* processAction and getUniqueTaskActions (actions.go:74-105).  Task names *)
(* are sequences of characters here, so that a prefix and a substring      *)
(* differ.                                                                 *)
(***************************************************************************)
\* strings.Contains (actions.go:85)
Contains(s, substr) ==
    \E i \in 0..(Len(s) - Len(substr)) : SubSeq(s, i + 1, i + Len(substr)) = substr

\* Runner.processAction; tasks is r.tasksFile.Tasks
processAction(tasks, task, a) ==
    LET taskReferenceName == Split(task.Name, ":")[1]
        actionReferenceName == Split(a.TaskReference, ":")[1]
    IN  IF a.TaskReference # << >> /\ taskReferenceName # actionReferenceName
        THEN ~\E i \in 1..Len(tasks) :
                 \/ Contains(tasks[i].Name, taskReferenceName \o << ":" >>)
                 \/ Contains(tasks[i].Name, actionReferenceName \o << ":" >>)
        ELSE FALSE

\* actions.go:98-103: the loop over the actions left, with the map of the
\* references seen and the array built so far
RECURSIVE UniqueLoop(_, _, _)
UniqueLoop(actions, uniqueMap, uniqueArray) ==
    IF actions = << >> THEN uniqueArray
    ELSE LET a == Head(actions)
         IN  IF a.TaskReference \notin uniqueMap
             THEN UniqueLoop(Tail(actions), uniqueMap \cup {a.TaskReference},
                             Append(uniqueArray, a))
             ELSE UniqueLoop(Tail(actions), uniqueMap, uniqueArray)

KeepsEveryAction(actions) == actions

getUniqueTaskActions(actions) == UniqueLoop(actions, {}, << >>)

(***************************************************************************)
(* The manifests of the model.                                             *)
(***************************************************************************)
\* the zero value of types.Action
Action0 ==
    [TaskReference |-> << >>, With |-> EmptyMap, If |-> << >>,
     Description |-> << >>, Cmd |-> << >>, Wait |-> Nil, Dir |-> Nil,
     Env |-> << >>, Mute |-> Nil, MaxTotalSeconds |-> Nil, MaxRetries |-> Nil,
     Shell |-> Nil, SetVariables |-> << >>]

RetryVals == {Nil} \cup {Some(n) : n \in 0..MaxR}
SecondsVals == {Nil} \cup {Some(n) : n \in 0..MaxS}

VarX == [Name |-> "X", Pattern |-> << >>]
VarXa == [Name |-> "X", Pattern |-> << "^a$" >>]
VarY == [Name |-> "Y", Pattern |-> << >>]
SetVarChoices == { << >>, << VarX >>, << VarXa, VarY >> }

Cluster1 ==
    [Kind |-> << "pod" >>, Identifier |-> << "app" >>, Condition |-> << "Ready" >>,
     Namespace |-> << "ns" >>]
Network1 == [Protocol |-> << "H", "T", "t", "p", "S" >>, Address |-> << "localhost" >>, Code |-> 0]
WaitForms ==
    { [Cluster |-> c, Network |-> n] :
        c \in {Nil, Some(Cluster1)}, n \in {Nil, Some(Network1)} }

\* cmd actions over the retry and timeout settings
RetryActions ==
    { [Action0 EXCEPT !.Cmd = << "run" >>, !.MaxRetries = r,
                      !.MaxTotalSeconds = s, !.SetVariables = sv] :
        r \in RetryVals, s \in SecondsVals, sv \in SetVarChoices }

\* every form of action, with and without description and if
FormActions ==
    { [Action0 EXCEPT !.Cmd = << "echo" >>, !.Description = d, !.If = c,
                      !.SetVariables = << VarX >>] :
        d \in {<< >>, << "desc" >>}, c \in {<< >>, FalseLit, << "true" >>} }
    \cup
    { [Action0 EXCEPT !.Wait = Some(w), !.Description = d, !.If = c,
                      !.MaxTotalSeconds = s, !.MaxRetries = Some(1),
                      !.Mute = Some(FALSE), !.Dir = Some(<< "dir" >>),
                      !.Env = << << "K", "=", "1" >> >>,
                      !.SetVariables = << VarX >>] :
        w \in WaitForms, d \in {<< >>, << "desc" >>},
        c \in {<< >>, FalseLit}, s \in {Nil, Some(1)} }

InputSpecs ==
    [Required : BOOLEAN, Default : {<< >>, << "d" >>},
     DeprecatedMessage : {<< >>, << "old" >>}]

\* the inputs of the referenced task: input a of any kind, input b absent,
\* required or optional
InputMaps ==
    { [k \in ks |-> IF k = "a" THEN sa ELSE sb] :
        ks \in SUBSET {"a", "b"}, sa \in InputSpecs,
        sb \in { [Required |-> TRUE, Default |-> << >>, DeprecatedMessage |-> << >>],
                 [Required |-> FALSE, Default |-> << >>,
                  DeprecatedMessage |-> << "old" >>] } }

\* the with-maps of the reference: a absent, empty, literal or a variable;
\* b absent or literal; z is a key the referenced task has no input for
WithMaps ==
    { [k \in ks |-> IF k = "a" THEN va ELSE << "v" >>] :
        ks \in {{}, {"a"}, {"b"}, {"a", "b"}, {"a", "z"}},
        va \in {<< >>, << "v" >>, << "${X}" >>} }

UnitTask(a) == [Name |-> << "unit" >>, Inputs |-> EmptyMap, Actions |-> << a >>]

MainTask(w, c) ==
    [Name |-> << "main" >>, Inputs |-> EmptyMap,
     Actions |-> << [Action0 EXCEPT !.Cmd = << "pre" >>,
                                    !.SetVariables = << VarX >>],
                    [Action0 EXCEPT !.TaskReference = << "sub" >>, !.With = w,
                                    !.If = c],
                    [Action0 EXCEPT !.Cmd = << "./", "run", " ", "post" >>] >>]

SubTask(inp) ==
    [Name |-> << "sub" >>, Inputs |-> inp,
     Actions |-> << [Action0 EXCEPT !.Cmd = << "echo", " ", "${{.inputs.a}}" >>,
                                    !.Env = << << "INPUT_A", "=", "old" >> >>,
                                    !.SetVariables = << VarX, VarY >>] >>]

DefaultWiths == [k \in {"a"} |-> << "v" >>]

Manifests ==
    { << UnitTask(a) >> : a \in RetryActions \cup FormActions }
    \cup
    { << MainTask(w, << >>), SubTask(inp) >> : w \in WithMaps, inp \in InputMaps }
    \cup
    { << MainTask(DefaultWiths, FalseLit), SubTask(EmptyMap) >> }

\* what the child processes of the model print
Outs == { << >>, << "a" >>, << " ", "a", "\r", "\n" >>, << "b", "\n" >> }

ExitCodes == {0, 1}

\* os.ReadFile of the env file: an error, or its contents
EnvFiles == { Nil, Some(<< "F", "=", "${X}", "\n", "G", "=", "1", "\n" >>) }

\* the with-maps of the command line, for a task with these inputs
CliWiths(inputs) ==
    IF DOMAIN inputs = {} THEN { EmptyMap }
    ELSE { EmptyMap, [k \in {"a"} |-> << "v" >>] }

\* the store after construction: the manifest's variable defaults
InitialVars ==
    [k \in {"X", "Y"} |->
        [Value |-> IF k = "X" THEN << "x0" >> ELSE << "y0" >>, Pattern |-> << >>]]

\* task names, character by character: two tasks of the root file, a task of
\* each of the includes a, b and ab
NameMain == << "m" >>
NameTest == << "t" >>
NameAx == << "a", ":", "x" >>
NameBy == << "b", ":", "y" >>
NameABx == << "a", "b", ":", "x" >>
PoolNames == { NameMain, NameTest, NameAx, NameBy, NameABx }

\* the names of a pool, in one order (processAction's result depends on
\* none)
OneOrder(S) == CHOOSE ks \in Orders(S) : TRUE

PoolTask(name) == [Name |-> name, Inputs |-> EmptyMap, Actions |-> << >>]

\* the pools processAction scans: every set of those tasks
Pools ==
    { [i \in 1..Cardinality(S) |-> PoolTask(OneOrder(S)[i])] : S \in SUBSET PoolNames }

\* the tasks whose actions are processed, and the references they carry
CallingTasks == { PoolTask(NameMain), PoolTask(NameAx) }
References == { << >>, NameTest, NameAx, << "a", ":", "z" >>, NameBy }

\* the actions getUniqueTaskActions is given: cmd actions, a wait, and
\* references, some to the same task
ListActions ==
    { [Action0 EXCEPT !.Cmd = << "c1" >>],
      [Action0 EXCEPT !.Cmd = << "c2" >>],
      [Action0 EXCEPT !.Wait = Some([Cluster |-> Some(Cluster1), Network |-> Nil])],
      [Action0 EXCEPT !.TaskReference = NameTest],
      [Action0 EXCEPT !.TaskReference = NameTest, !.If = FalseLit],
      [Action0 EXCEPT !.TaskReference = NameBy] }

ActionLists == UNION { [1..n -> ListActions] : n \in 0..MaxActions }

\* no call of a load-time function was made
NoCall ==
    [fn |-> "none", task |-> PoolTask(<< >>), action |-> Action0,
     actions |-> << >>, result |-> FALSE, unique |-> << >>]

(***************************************************************************)
(* State.                                                                  *)
(*   tasksFile       r.tasksFile.Tasks, the pool of tasks                  *)
(*   loaded          the pool as it was loaded                             *)
(*   variableConfig  r.variableConfig's set-variable map                   *)
(*   envFilePath, dryRun   the Runner's fields of those names              *)
(*   stack           the executeTask calls in progress, innermost last:    *)
(*                   ti the task's place in the pool, idx its next action, *)
(*                   withs its with-map, saved the caller's store when the *)
(*                   task was entered by reference, entry the store and    *)
(*                   the counters when its current action began            *)
(*   pc              "start", "task" (between actions), "loop" (RunAction  *)
(*                   at the head of its retry loop), "exec" (a child       *)
(*                   process runs), "done" (Run has returned runErr)       *)
(*   action, cmd, cfg, remaining, ctx, out, err   locals of performAction  *)
(*                   and RunAction of the same names                       *)
(*   now             seconds since RunAction started its timer             *)
(*   timeout         the timer channel: its deadline and whether its value *)
(*                   was received                                          *)
(*   broke           the retry loop was left by break retryLoop            *)
(*   spawned, startedAt   ExecAction calls of this RunAction, and when the *)
(*                   last one began                                        *)
(*   rawOut          stdout of the last child that exited 0                *)
(*   mismatch        an attempt of this RunAction failed a pattern         *)
(*   ret             what the latest RunAction call returned               *)
(*   nspawn, nwrite, envReads   processes spawned, variables written and   *)
(*                   env-file reads since Run began                        *)
(*   call            the latest call of processAction or                   *)
(*                   getUniqueTaskActions: its arguments and its result    *)
(***************************************************************************)
VARIABLES tasksFile, loaded, variableConfig, envFilePath, dryRun, stack, pc,
          action, cmd, cfg, remaining, ctx, out, err, now, timeout, broke,
          spawned, startedAt, rawOut, mismatch, ret, runErr,
          nspawn, nwrite, envReads, call

vars == << tasksFile, loaded, variableConfig, envFilePath, dryRun, stack, pc,
           action, cmd, cfg, remaining, ctx, out, err, now, timeout, broke,
           spawned, startedAt, rawOut, mismatch, ret, runErr,
           nspawn, nwrite, envReads, call >>

runner == << envFilePath, dryRun, loaded, call >>
locals == << cmd, cfg, remaining, ctx, out, err, now, timeout, broke,
             spawned, startedAt, rawOut, mismatch >>

NotRun == [kind |-> "none", n |-> 0, names |-> {}]
Running == [kind |-> "running", n |-> 0, names |-> {}]

\* nothing has run yet
Fresh ==
    /\ loaded = tasksFile
    /\ variableConfig = InitialVars
    /\ call = NoCall
    /\ stack = << >>
    /\ pc = "start"
    /\ action = Action0
    /\ cmd = << >>
    /\ cfg = ActionDefaults
    /\ remaining = 0
    /\ ctx = Nil
    /\ out = << >>
    /\ err = NoErr
    /\ now = 0
    /\ timeout = [deadline |-> 0, taken |-> FALSE]
    /\ broke = FALSE
    /\ spawned = 0
    /\ startedAt = 0
    /\ rawOut = << >>
    /\ mismatch = FALSE
    /\ ret = NotRun
    /\ runErr = NoErr
    /\ nspawn = 0
    /\ nwrite = 0
    /\ envReads = 0

Init ==
    /\ tasksFile \in Manifests
    /\ envFilePath \in { << >>, << ".env" >> }
    /\ dryRun \in BOOLEAN
    /\ Len(tasksFile) > 1 => envFilePath = << >> /\ ~dryRun
    /\ Fresh

Top == stack[Len(stack)]
TopTask == tasksFile[Top.ti]
Entry == [store |-> variableConfig, nspawn |-> nspawn, nwrite |-> nwrite]

executeTaskOnCallerStore(frames, ti, withs, saved) ==
    Append(frames, [ti |-> ti, idx |-> 1, withs |-> withs, saved |-> Nil,
                    entry |-> [store |-> variableConfig, nspawn |-> nspawn,
                               nwrite |-> nwrite]])

\* Runner.executeTask, entered: a frame for the task; a task entered by
\* reference works on a snapshot of the store, discarded when it returns
executeTask(frames, ti, withs, saved) ==
    Append(frames, [ti |-> ti, idx |-> 1, withs |-> withs, saved |-> saved,
                    entry |-> [store |-> variableConfig, nspawn |-> nspawn,
                               nwrite |-> nwrite]])

\* the innermost task goes on to its next action
NextAction(frames) == [frames EXCEPT ![Len(frames)].idx = @ + 1]
BeginAction(frames) == [frames EXCEPT ![Len(frames)].entry = Entry]

\* an error returned by performAction ends executeTask and Run
Abort(e) ==
    /\ pc' = "done"
    /\ runErr' = e

\* Runner.Run: the command line's withs are validated against the task's
\* inputs, then the task is executed
Run(ti, withs) ==
    /\ pc = "start"
    /\ LET v == validateActionableTaskCall(tasksFile[ti].Name,
                                           tasksFile[ti].Inputs, withs)
       IN  IF v.err.kind # "nil"
           THEN Abort(v.err) /\ UNCHANGED stack
           ELSE /\ stack' = executeTask(stack, ti, withs, Nil)
                /\ pc' = "task"
                /\ UNCHANGED runErr
    /\ UNCHANGED << tasksFile, variableConfig, runner, action, locals, ret,
                    nspawn, nwrite, envReads >>

\* the action performAction works on (actions.go:29)
Templated ==
    TemplateTaskAction(TopTask.Actions[Top.idx], Top.withs, TopTask.Inputs,
                       variableConfig)

CanPerform == pc = "task" /\ Top.idx <= Len(TopTask.Actions)

\* actions.go:30-40
PerformSkip ==
    /\ CanPerform
    /\ SkipAction(Templated)
    /\ action' = Templated
    /\ stack' = NextAction(BeginAction(stack))
    /\ ret' = NotRun
    /\ UNCHANGED << tasksFile, variableConfig, runner, pc, locals, runErr,
                    nspawn, nwrite, envReads >>

\* actions.go:42-64
PerformReference ==
    /\ CanPerform
    /\ ~SkipAction(Templated)
    /\ Templated.TaskReference # << >>
    /\ LET a == Templated
           g == getTask(tasksFile, a.TaskReference)
           withs == TemplateWiths(variableConfig, a.With)
           v == validateActionableTaskCall(tasksFile[g.idx].Name,
                                           tasksFile[g.idx].Inputs, withs)
       IN  /\ ret' = NotRun
           /\ IF g.err.kind # "nil"
              THEN /\ Abort(g.err)
                   /\ action' = a
                   /\ stack' = BeginAction(stack)
                   /\ UNCHANGED tasksFile
              ELSE /\ action' = [a EXCEPT !.With = withs]
                   /\ IF v.err.kind # "nil"
                      THEN /\ Abort(v.err)
                           /\ stack' = BeginAction(stack)
                           /\ UNCHANGED tasksFile
                      ELSE /\ \E ks \in Orders(DOMAIN withs) :
                                  tasksFile' = MergeIntoCallee(tasksFile, g.idx,
                                                               WithEnv(withs, ks))
                           /\ stack' = executeTask(BeginAction(stack), g.idx,
                                                   withs, Some(variableConfig))
                           /\ UNCHANGED << pc, runErr >>
    /\ UNCHANGED << variableConfig, runner, locals, nspawn, nwrite, envReads >>

\* actions.go:66, 108-189: RunAction up to its retry loop
PerformRunAction(envFile) ==
    /\ CanPerform
    /\ ~SkipAction(Templated)
    /\ Templated.TaskReference = << >>
    /\ \E ks \in Orders(DOMAIN variableConfig) :
       LET s == RunActionSetup(Templated, envFilePath, variableConfig, dryRun,
                               envFile, ks)
       IN  /\ action' = s.action
           /\ cmd' = s.cmd
           /\ cfg' = s.cfg
           /\ envReads' = envReads + (IF s.readEnv THEN 1 ELSE 0)
           /\ remaining' = IF s.returned THEN 0 ELSE Attempts(s.cfg)
           /\ timeout' = [deadline |-> Duration(s.cfg), taken |-> FALSE]
           /\ now' = 0
           /\ ctx' = Nil
           /\ out' = << >>
           /\ err' = IF s.err.kind = "wait_missing_form" THEN s.err ELSE NoErr
           /\ rawOut' = << >>
           /\ broke' = FALSE
           /\ spawned' = 0
           /\ startedAt' = 0
           /\ mismatch' = FALSE
           /\ IF s.returned /\ s.err.kind # "nil"
              THEN /\ Abort(s.err)
                   /\ ret' = s.err
                   /\ stack' = BeginAction(stack)
              ELSE IF s.returned
              THEN /\ ret' = NoErr
                   /\ stack' = NextAction(BeginAction(stack))
                   /\ UNCHANGED << pc, runErr >>
              ELSE /\ ret' = Running
                   /\ pc' = "loop"
                   /\ stack' = BeginAction(stack)
                   /\ UNCHANGED runErr
    /\ UNCHANGED << tasksFile, variableConfig, runner, nspawn, nwrite >>

\* RunAction returns err to performAction, which returns it to executeTask
Return(e) ==
    IF e.kind # "nil"
    THEN Abort(e) /\ UNCHANGED stack
    ELSE /\ pc' = "task"
         /\ stack' = NextAction(stack)
         /\ UNCHANGED runErr

\* actions.go:192-243: an iteration that runs the command (ExecAction is
\* called; with a timeout, under a context of the whole duration)
LoopSpawn ==
    /\ pc = "loop"
    /\ remaining > 0
    /\ NoTimeout(cfg) \/ ~TimerReady(now, timeout.deadline, timeout.taken)
    /\ pc' = "exec"
    /\ ctx' = IF NoTimeout(cfg) THEN Nil ELSE Some(now + Duration(cfg))
    /\ spawned' = spawned + 1
    /\ nspawn' = nspawn + 1
    /\ startedAt' = now
    /\ UNCHANGED << tasksFile, variableConfig, runner, stack, action, cmd, cfg,
                    remaining, out, err, now, timeout, broke, rawOut, mismatch,
                    ret, runErr, nwrite, envReads >>

\* actions.go:238-239, 253-261: the select of the loop receives the timer's
\* value and breaks; the select after the loop then decides the error
LoopBreak ==
    /\ pc = "loop"
    /\ remaining > 0
    /\ ~NoTimeout(cfg)
    /\ TimerReady(now, timeout.deadline, timeout.taken)
    /\ timeout' = [timeout EXCEPT !.taken = TRUE]
    /\ broke' = TRUE
    /\ LET e == FinalSelect(TimerReady(now, timeout.deadline, TRUE), cfg)
       IN  ret' = e /\ Return(e)
    /\ UNCHANGED << tasksFile, variableConfig, runner, action, cmd, cfg,
                    remaining, ctx, out, err, now, spawned, startedAt, rawOut,
                    mismatch, nspawn, nwrite, envReads >>

\* actions.go:192, 253-261: no attempt remains
LoopExit ==
    /\ pc = "loop"
    /\ remaining <= 0
    /\ LET ready == TimerReady(now, timeout.deadline, timeout.taken)
           e == FinalSelect(ready, cfg)
       IN  /\ timeout' = [timeout EXCEPT !.taken = @ \/ ready]
           /\ ret' = e
           /\ Return(e)
    /\ UNCHANGED << tasksFile, variableConfig, runner, action, cmd, cfg,
                    remaining, ctx, out, err, now, broke, spawned, startedAt,
                    rawOut, mismatch, nspawn, nwrite, envReads >>

\* a second passes while the child runs (past MaxNow, the time to the
\* context's deadline passes)
Tick ==
    /\ pc = "exec"
    /\ ctx = Nil => now < MaxNow
    /\ ctx # Nil => now < Deref(ctx)
    /\ now' = IF ctx # Nil /\ now >= MaxNow THEN Deref(ctx) ELSE now + 1
    /\ UNCHANGED << tasksFile, variableConfig, runner, stack, pc, action, cmd,
                    cfg, remaining, ctx, out, err, timeout, broke, spawned,
                    startedAt, rawOut, mismatch, ret, runErr, nspawn, nwrite,
                    envReads >>

\* actions.go:195-232, 244-249: what tryCmd's result does to the loop
AfterTry(r) ==
    /\ variableConfig' = r.vars
    /\ out' = r.out
    /\ err' = r.err
    /\ nwrite' = nwrite + r.writes
    /\ IF r.err.kind # "nil"
       THEN /\ remaining' = remaining - 1
            /\ pc' = "loop"
            /\ UNCHANGED << stack, ret, runErr >>
       ELSE /\ ret' = NoErr
            /\ Return(NoErr)
            /\ UNCHANGED remaining

\* actions.go:304-326: the child exits by itself with a code and its output
ExecExit(code, stdout) ==
    /\ pc = "exec"
    /\ ctx # Nil => now < Deref(ctx)
    /\ LET execErr == IF code = 0 THEN NoErr ELSE Err("exit_status", code, {})
           r == tryCmd(action, variableConfig, stdout, execErr)
       IN  /\ AfterTry(r)
           /\ rawOut' = IF code = 0 THEN stdout ELSE rawOut
           /\ mismatch' = (mismatch \/ (code = 0 /\ r.err.kind # "nil"))
    /\ UNCHANGED << tasksFile, runner, action, cmd, cfg, ctx, now, timeout,
                    broke, spawned, startedAt, nspawn, envReads >>

\* actions.go:243-246, 319: the context's time is over, the child is killed
\* and ExecAction returns the error with the output so far
ExecCancelled(stdout) ==
    /\ pc = "exec"
    /\ ctx # Nil
    /\ now >= Deref(ctx)
    /\ AfterTry(tryCmd(action, variableConfig, stdout,
                       Err("context_deadline_exceeded", 0, {})))
    /\ UNCHANGED << tasksFile, runner, action, cmd, cfg, ctx, now, timeout,
                    broke, spawned, startedAt, rawOut, mismatch, nspawn,
                    envReads >>

\* Runner.executeTask returns nil: every action of the task was performed
TaskReturn ==
    /\ pc = "task"
    /\ Top.idx > Len(TopTask.Actions)
    /\ variableConfig' = IF Top.saved # Nil THEN Deref(Top.saved) ELSE variableConfig
    /\ IF Len(stack) = 1
       THEN /\ pc' = "done"
            /\ stack' = << >>
       ELSE /\ pc' = "task"
            /\ stack' = NextAction(SubSeq(stack, 1, Len(stack) - 1))
    /\ UNCHANGED << tasksFile, runner, action, locals, ret, runErr, nspawn,
                    nwrite, envReads >>

Next ==
    \/ \E ti \in 1..Len(tasksFile) :
          \E withs \in CliWiths(tasksFile[ti].Inputs) : Run(ti, withs)
    \/ PerformSkip
    \/ PerformReference
    \/ \E envFile \in EnvFiles : PerformRunAction(envFile)
    \/ LoopSpawn
    \/ LoopBreak
    \/ LoopExit
    \/ Tick
    \/ \E code \in ExitCodes, stdout \in Outs : ExecExit(code, stdout)
    \/ \E stdout \in Outs : ExecCancelled(stdout)
    \/ TaskReturn

Spec == Init /\ [][Next]_vars

(***************************************************************************)
(* The load-time functions, applied to a pool: processAction reads the     *)
(* pool r.tasksFile.Tasks, getUniqueTaskActions only its argument.         *)
(***************************************************************************)
LoadInit ==
    /\ tasksFile \in Pools
    /\ envFilePath = << >>
    /\ dryRun = FALSE
    /\ Fresh

ProcessAction(task, a) ==
    /\ pc = "start" /\ call = NoCall
    /\ call' = [NoCall EXCEPT !.fn = "processAction", !.task = task, !.action = a,
                              !.result = processAction(tasksFile, task, a)]
    /\ UNCHANGED << tasksFile, variableConfig, envFilePath, dryRun, loaded, stack,
                    pc, action, locals, ret, runErr, nspawn, nwrite, envReads >>

GetUniqueTaskActions(actions) ==
    /\ pc = "start" /\ call = NoCall
    /\ call' = [NoCall EXCEPT !.fn = "getUniqueTaskActions", !.actions = actions,
                              !.unique = getUniqueTaskActions(actions)]
    /\ UNCHANGED << tasksFile, variableConfig, envFilePath, dryRun, loaded, stack,
                    pc, action, locals, ret, runErr, nspawn, nwrite, envReads >>

LoadNext ==
    \/ \E task \in CallingTasks, ref \in References :
          ProcessAction(task, [Action0 EXCEPT !.TaskReference = ref])
    \/ \E actions \in ActionLists : GetUniqueTaskActions(actions)

LoadSpec == LoadInit /\ [][LoadNext]_vars

\* The same program with the progress its steps have: RunAction's own steps
\* are taken (the goroutine runs), time passes while a child runs, and
\* exec.CmdWithContext kills the child when its context is over.  Nothing
\* is assumed about the child: it need not ever exit by itself.
FairSpec ==
    /\ Spec
    /\ WF_vars(LoopSpawn)
    /\ WF_vars(LoopBreak)
    /\ WF_vars(LoopExit)
    /\ WF_vars(Tick)
    /\ WF_vars(\E stdout \in Outs : ExecCancelled(stdout))

(***************************************************************************)
(* Properties.                                                             *)
(***************************************************************************)
\* the manifest action the innermost task performed last
Performed == TopTask.Actions[Top.idx - 1]
AfterAction == pc = "task" /\ Top.idx > 1

\* value is raw without its leading and trailing white space
IsTrimOf(value, raw) ==
    \E i \in 0..Len(raw), j \in 0..Len(raw) :
        /\ i + j <= Len(raw)
        /\ value = SubSeq(raw, i + 1, Len(raw) - j)
        /\ \A k \in 1..i : IsSpace(raw[k])
        /\ \A k \in (Len(raw) - j + 1)..Len(raw) : IsSpace(raw[k])
        /\ value # << >> => ~IsSpace(value[1]) /\ ~IsSpace(value[Len(value)])

\* C1: a RunAction call spawns at most maxRetries + 1 child processes, and
\* with a deadline (maxTotalSeconds >= 1) every child was spawned at an
\* iteration that began before the deadline.
C1_RetryBound ==
    /\ spawned <= cfg.MaxRetries + 1
    /\ (spawned > 0 /\ cfg.MaxTotalSeconds >= 1) => startedAt < timeout.deadline

\* C1 witness: the deadline passed during a failed attempt and ended the
\* loop while attempts remained.
C1_Witness ==
    /\ pc = "done" /\ broke
    /\ cfg.MaxTotalSeconds >= 1
    /\ spawned >= 1 /\ spawned < cfg.MaxRetries + 1

\* C2 (as claimed): whenever the action performed last has if = "false"
\* after templating, performAction has returned success, RunAction was not
\* called, no referenced task was entered, and no process was spawned nor
\* variable changed since the action began.
C2_SkipWhateverForm ==
    action.If = FalseLit =>
        /\ ret = NotRun
        /\ runErr = NoErr
        /\ pc \in {"task", "done"}
        /\ pc = "task" => /\ Top.idx > 1
                          /\ nspawn = Top.entry.nspawn
                          /\ variableConfig = Top.entry.store

\* C3: after a task-reference action has returned, the caller's store holds
\* the bindings it held when the reference began.
C3_CalleeWritesHidden ==
    (AfterAction /\ Performed.TaskReference # << >>) =>
        variableConfig = Top.entry.store

\* C3 witness: a reference has returned whose callee wrote variables.
C3_Witness ==
    /\ AfterAction
    /\ Performed.TaskReference # << >>
    /\ nwrite > Top.entry.nwrite

\* the state right after performAction validated a task reference
JustReferenced == action.TaskReference # << >> /\ action.If # FalseLit
RefInputs == tasksFile[getTask(tasksFile, action.TaskReference).idx].Inputs
MissingInputs ==
    {k \in DOMAIN RefInputs :
        /\ RefInputs[k].Required
        /\ RefInputs[k].Default = << >>
        /\ (k \notin DOMAIN action.With \/ action.With[k] = << >>)}

\* C4: the validation of a task reference fails if and only if some input is
\* required, has an empty default and is absent from the with-map or bound to
\* the empty string (unknown with-keys and deprecated inputs do not matter);
\* when it fails the referenced task is not entered and nothing is spawned.
C4_MissingInputs ==
    JustReferenced =>
        /\ (pc = "done" /\ runErr.kind = "missing_inputs") <=> (MissingInputs # {})
        /\ MissingInputs # {} =>
              /\ runErr.names = MissingInputs
              /\ Len(stack) = 1
              /\ nspawn = Top.entry.nspawn
        /\ MissingInputs = {} => Len(stack) = 2 /\ pc = "task"

\* C4 witness: a reference failed for a with bound to the empty string,
\* though it also passed a key the task has no input for.
C4_Witness ==
    /\ JustReferenced
    /\ pc = "done" /\ runErr.kind = "missing_inputs"
    /\ "a" \in DOMAIN action.With /\ action.With["a"] = << >>
    /\ "z" \in DOMAIN action.With

LoopFailed == pc = "done" /\ ret.kind \in {"timeout", "retries"}

\* C5 (as claimed): with maxTotalSeconds >= 1, when RunAction fails after the
\* loop was left by the timeout, or with the deadline passed, its error is
\* the timeout error.
C5_TimeoutError ==
    (LoopFailed /\ cfg.MaxTotalSeconds >= 1 /\ (broke \/ now >= timeout.deadline))
        => ret.kind = "timeout"

\* C6 (as claimed): without a deadline (maxTotalSeconds < 1) a RunAction
\* whose attempts all failed returns the retries-exhausted error.
C6_NoDeadlineNoTimeout ==
    (LoopFailed /\ cfg.MaxTotalSeconds < 1) => ret.kind = "retries"

NoSubForm(a) ==
    a.Wait # Nil /\ Deref(a.Wait).Cluster = Nil /\ Deref(a.Wait).Network = Nil

DryRunInert ==
    /\ nspawn = 0
    /\ nwrite = 0
    /\ envReads = 0
    /\ variableConfig = InitialVars

\* C7 (as claimed): in a dry run RunAction returns success for every action
\* and spawns nothing, reads no env file and writes no variable.
C7_DryRunAlwaysSucceeds ==
    dryRun => DryRunInert /\ ret.kind \in {"none", "nil"}

\* C7 (amended): in a dry run RunAction spawns nothing, reads no env file
\* and writes no variable; it returns success for every cmd action and every
\* wait with a cluster or network form, and the conversion error for a wait
\* with neither.
C7_DryRun ==
    dryRun =>
        /\ DryRunInert
        /\ ret.kind \in {"none", "nil", "wait_missing_form"}
        /\ ret.kind = "wait_missing_form" <=> (ret # NotRun /\ NoSubForm(action))

\* C7 witness: a dry run of a wait action returned success with an env file
\* configured.
C7_Witness ==
    /\ dryRun /\ ret = NoErr
    /\ action.Wait # Nil
    /\ envFilePath # << >>

Holds(sv, raw) ==
    \A i \in 1..Len(sv) :
        /\ sv[i].Name \in DOMAIN variableConfig
        /\ IsTrimOf(variableConfig[sv[i].Name].Value, raw)

\* C8 (as claimed): when RunAction has returned success for a non-dry-run
\* action, every variable of the action's setVariables holds the trimmed
\* stdout of the attempt that exited 0, in the store the next action reads.
C8_SetVariablesAnyAction ==
    (AfterAction /\ ret = NoErr /\ ~dryRun) =>
        Holds(Performed.SetVariables, rawOut)

\* C8 (amended): the same for cmd actions; the setVariables of a wait action
\* are discarded and none is written.
C8_SetVariables ==
    (AfterAction /\ ret = NoErr /\ ~dryRun /\ Performed.Wait = Nil) =>
        Holds(Performed.SetVariables, rawOut)

\* C8 witness: a cmd action succeeded at a later attempt, after a failed
\* one, with output that needed trimming.
C8_Witness ==
    /\ AfterAction /\ ret = NoErr /\ ~dryRun
    /\ Performed.Wait = Nil
    /\ Len(Performed.SetVariables) = 2
    /\ spawned >= 2
    /\ rawOut = << " ", "a", "\r", "\n" >>

\* C9 (as claimed): once an attempt that exited 0 has failed a pattern, no
\* child of the action runs again and RunAction does not return success.
C9_PatternMismatchFatal ==
    mismatch => pc # "exec" /\ ret # NoErr

\* C10 (as claimed): the pool of tasks stays as it was loaded.
C10_ManifestImmutable == tasksFile = loaded

\* C11: RunAction does not give up early.  From the head of the retry loop
\* with an attempt remaining and the deadline not elapsed (or no deadline),
\* the one step RunAction takes is to spawn the next attempt; and an attempt
\* that ends without error (exit 0, every pattern holds) makes RunAction
\* return success at once, with no further spawn.
C11_NoEarlyGiveUp ==
    [][ /\ (/\ pc = "loop" /\ remaining > 0
            /\ (cfg.MaxTotalSeconds < 1 \/ now < timeout.deadline))
              => (pc' = "exec" /\ spawned' = spawned + 1 /\ ret' = Running)
        /\ (pc = "exec" /\ pc' # "exec" /\ err'.kind = "nil")
              => /\ ret' = NoErr
                 /\ pc' \in {"task", "done"}
                 /\ spawned' = spawned /\ nspawn' = nspawn
                 /\ runErr' = NoErr
      ]_vars

\* C11 witness: under a deadline, a second attempt was spawned after the
\* first failed, and its success ended the action.
C11_Witness ==
    /\ AfterAction /\ ret = NoErr
    /\ cfg.MaxTotalSeconds >= 1 /\ cfg.MaxRetries = 2
    /\ spawned = 2 /\ now >= 1

\* C12 (as claimed): under a deadline (maxTotalSeconds >= 1) the context of
\* every attempt ends no later than the deadline D of the action, and no
\* child of the action is running after D.
C12_ContextWithinDeadline ==
    (pc = "exec" /\ cfg.MaxTotalSeconds >= 1) =>
        /\ Deref(ctx) <= timeout.deadline
        /\ now <= timeout.deadline

\* the errors ExecAction returns: nonzero exit, or the context's cancellation
ExecErrKinds == {"exit_status", "context_deadline_exceeded"}

\* C13: an attempt that ends with an error of ExecAction writes no variable,
\* whatever it had printed: the store is as it was when the attempt began;
\* and when every attempt of the action ended this way, RunAction has
\* returned an error and the store is as it was when the action began.
C13_FailedAttemptWritesNothing ==
    /\ [][ (pc = "exec" /\ pc' # "exec" /\ err'.kind \in ExecErrKinds)
              => /\ variableConfig' = variableConfig
                 /\ nwrite' = nwrite
                 /\ pc' = "loop" /\ remaining' = remaining - 1
          ]_vars
    /\ []((LoopFailed /\ ~mismatch)
              => /\ variableConfig = Top.entry.store
                 /\ nwrite = Top.entry.nwrite
                 /\ runErr = ret /\ runErr.kind # "nil")

\* C13 witness: every attempt of an action with setVariables failed, the
\* last one cancelled by its context after it had printed a value.
C13_Witness ==
    /\ LoopFailed /\ ~mismatch
    /\ spawned >= 2
    /\ Len(action.SetVariables) = 2
    /\ err.kind = "context_deadline_exceeded"
    /\ out = << "a" >>

\* RunAction is past its setup and in its retry loop
InLoop == pc \in {"loop", "exec"}
\* the manifest's action RunAction is running
Current == TopTask.Actions[Top.idx]

\* C14 (as claimed): a wait action runs with mute = true, maxRetries = 0,
\* empty dir and empty env, and maxTotalSeconds = 300 unless the manifest
\* gave one, whatever the manifest gave for the other fields; it spawns at
\* most one child and writes no variable.
C14_WaitOverrides ==
    (InLoop /\ action.Wait # Nil) =>
        /\ cfg.Mute = TRUE
        /\ cfg.MaxRetries = 0
        /\ cfg.Dir = << >>
        /\ action.Env = << >>
        /\ cfg.MaxTotalSeconds = IF Current.MaxTotalSeconds = Nil
                                 THEN FiveMin
                                 ELSE Deref(Current.MaxTotalSeconds)
        /\ action.SetVariables = << >>
        /\ spawned <= 1
        /\ nwrite = Top.entry.nwrite

\* C15: a RunAction that entered its retry loop under a deadline
\* (maxTotalSeconds >= 1) eventually returns, whether or not its children
\* ever exit by themselves; without a deadline it eventually returns unless
\* some child it spawned never exits.
C15_RunActionReturns ==
    /\ (InLoop /\ cfg.MaxTotalSeconds >= 1) ~> ~InLoop
    /\ \/ <>[](pc = "exec" /\ ctx = Nil)
       \/ (InLoop /\ cfg.MaxTotalSeconds < 1) ~> ~InLoop

\* C15 witness: RunAction returned after a child that did not exit by itself
\* was cancelled by its context, with retries left.
C15_Witness ==
    /\ LoopFailed
    /\ cfg.MaxTotalSeconds >= 1 /\ cfg.MaxRetries >= 1
    /\ spawned = 1
    /\ err.kind = "context_deadline_exceeded"

\* strings.HasPrefix
HasPrefix(s, prefix) ==
    Len(s) >= Len(prefix) /\ SubSeq(s, 1, Len(prefix)) = prefix

\* the namespace a task name carries: the part before its ":", none for a
\* task of the root file
HasNamespace(name) == \E i \in 1..Len(name) : name[i] = ":"
Namespace(name) == IF HasNamespace(name) THEN Split(name, ":")[1] ELSE << >>

Processed == call.fn = "processAction"
Caller == call.task.Name
Ref == call.action.TaskReference

\* C16 (as claimed): for an action that references a task of another
\* namespace, processAction returns false exactly when some task of the
\* pool has a name that begins with that namespace's prefix, and true when
\* none has; a pool task whose name only contains the prefix text further
\* in does not count.
C16_SkipIffPrefixInPool ==
    (Processed /\ HasNamespace(Ref) /\ Namespace(Ref) # Namespace(Caller)) =>
        (call.result = ~\E i \in 1..Len(tasksFile) :
                           HasPrefix(tasksFile[i].Name, Namespace(Ref) \o << ":" >>))

\* C17 (as claimed): processAction returns false for an action without a
\* task reference and for an action whose referenced task is of the same
\* file as the calling task: the same namespace, or both of the root file.
C17_FalseForSameFile ==
    (Processed /\ (Ref = << >> \/ Namespace(Ref) = Namespace(Caller))) =>
        call.result = FALSE

Uniqued == call.fn = "getUniqueTaskActions"

\* the places of the input that hold the first action of their reference
IsFirst(in, i) == \A j \in 1..(i - 1) : in[j].TaskReference # in[i].TaskReference
Firsts(in) == {i \in 1..Len(in) : IsFirst(in, i)}

\* C19: getUniqueTaskActions returns, in the order of the input, exactly the
\* first action of each distinct TaskReference; so the actions without a
\* reference collapse to the first of them; and applied to its own result
\* it changes nothing.
C19_FirstOfEachReference ==
    Uniqued =>
        LET in == call.actions
            res == call.unique
        IN  /\ Len(res) = Cardinality(Firsts(in))
            /\ \A i \in Firsts(in) :
                   res[Cardinality({j \in Firsts(in) : j <= i})] = in[i]
            /\ Cardinality({k \in 1..Len(res) : res[k].TaskReference = << >>}) <= 1
            /\ \A i \in 1..Len(in) :
                   (in[i].TaskReference = << >> /\ IsFirst(in, i))
                       => \E k \in 1..Len(res) : res[k] = in[i]
            /\ getUniqueTaskActions(res) = res

\* C19 witness: of two different cmd actions around a reference, the second
\* was dropped.
C19_Witness ==
    /\ Uniqued
    /\ Len(call.actions) = 3 /\ Len(call.unique) = 2
    /\ call.actions[1].TaskReference = << >>
    /\ call.actions[2].TaskReference # << >>
    /\ call.actions[3].TaskReference = << >>
    /\ call.actions[3] # call.actions[1]

\* the commands of the model's two wait forms, for a timeout of n seconds
ClusterCmd(n) ==
    << "zarf", " ", "tools", " ", "wait-for", " ", "pod", " ", "app", " ",
       "Ready", " ", "-n", " ", "ns", " ", "--timeout", " ", ToString(n), "s" >>
NetworkCmd(n) ==
    << "zarf", " ", "tools", " ", "wait-for", " ", "h", "t", "t", "p", "s", " ",
       "localhost", " ",
       "200", " ", "--timeout", " ", ToString(n), "s" >>

\* C18: RunAction of a wait action returns the conversion error exactly when
\* the wait has neither a cluster nor a network form, and then has spawned
\* nothing; with a form the command is that of the cluster form when there
\* is one (the network form's only otherwise).
C18_WaitConversion ==
    (ret # NotRun /\ action.Wait # Nil) =>
        LET wait == Deref(action.Wait)
            n == Deref(action.MaxTotalSeconds)
        IN  /\ (ret.kind = "wait_missing_form") <=> NoSubForm(action)
            /\ NoSubForm(action) =>
                  /\ pc = "done" /\ runErr = ret
                  /\ spawned = 0 /\ nspawn = Top.entry.nspawn
            /\ wait.Cluster # Nil => cmd = ClusterCmd(n)
            /\ (wait.Cluster = Nil /\ wait.Network # Nil) => cmd = NetworkCmd(n)

\* C18 witness: a wait with both forms was converted and its command ran.
C18_Witness ==
    /\ ret = NoErr /\ ~dryRun /\ spawned = 1
    /\ action.Wait # Nil
    /\ Deref(action.Wait).Cluster # Nil
    /\ Deref(action.Wait).Network # Nil
====
